---- MODULE Spec2Model ----
(***************************************************************************)
(* A model of the MIDI generator of src/main.py: the scale model, the      *)
(* steady rhythm generator, the melody, chord-progression, bass-line and   *)
(* drum-pattern generators, and the GUI handler generate_individual_action *)
(* that drives them and writes the MIDI file.                              *)
(*                                                                         *)
(* Strings that the code parses or tests character by character (the time  *)
(* signature, the Tempo and Measures entries) are sequences of one-        *)
(* character strings.  Times and durations are exact rationals <<n, d>>    *)
(* in lowest terms (Python computes them as ints and floats; every value   *)
(* the model reaches is k/4, k/8 or a sum of equal parts of a small        *)
(* integer, and the model does not represent float rounding).              *)
(***************************************************************************)
EXTENDS Integers, Sequences, FiniteSets, TLC

VARIABLES
    call,      \* the function or handler that ran last; "mainloop" while the GUI waits
    args,      \* its arguments (a record)
    rand,      \* the values random.random() yields during the call, cyclically
    result,    \* [raised |-> "none", value |-> v] or [raised |-> <exception>]
    files,     \* the MIDI files the handler wrote, in order
    message    \* the message box the handler showed: "none", "error", "success"

vars == <<call, args, rand, result, files, message>>

-----------------------------------------------------------------------------
(* Bounds of the model *)

MaxOctaves == 6        \* get_scale is called with octaves in -1 .. MaxOctaves
MaxMeasures == 2       \* measure counts range over -1 .. MaxMeasures
MaxRhythmLen == 2      \* directly supplied rhythm patterns have at most this many entries
MaxChordSize == 4      \* chord_size ranges over 0 .. MaxChordSize
TapeLen == 2           \* period of the modelled random source

-----------------------------------------------------------------------------
(* Python values *)

Return(v) == [raised |-> "none", value |-> v]
Raise(e) == [raised |-> e]
Returned(r) == r.raised = "none"

(* "name = value": the value is computed once, where it is assigned, and the
   code after the assignment reads it under the name *)
Bind(value, Rest(_)) == CHOOSE r \in {Rest(v) : v \in {value}} : TRUE

Min(a, b) == IF a <= b THEN a ELSE b
Abs(n) == IF n < 0 THEN -n ELSE n

RECURSIVE GCD(_, _)
GCD(a, b) == IF b = 0 THEN a ELSE GCD(b, a % b)

(* The rational n/d, d > 0, in lowest terms. *)
Rat(n, d) == LET g == GCD(Abs(n), d) IN <<n \div g, d \div g>>
RInt(n) == <<n, 1>>
Zero == RInt(0)
One == RInt(1)
RAdd(a, b) == Rat(a[1] * b[2] + b[1] * a[2], a[2] * b[2])
RSub(a, b) == Rat(a[1] * b[2] - b[1] * a[2], a[2] * b[2])
RMul(a, b) == Rat(a[1] * b[1], a[2] * b[2])
RDivInt(a, k) == Rat(a[1], a[2] * k)
(* int(x): truncation toward zero *)
Trunc(a) == IF a[1] >= 0 THEN a[1] \div a[2] ELSE -((-a[1]) \div a[2])

RECURSIVE RSum(_)
RSum(s) ==
    IF Len(s) = 0 THEN Zero
    ELSE IF Len(s) = 1 THEN s[1]
    ELSE LET half == Len(s) \div 2
         IN  RAdd(RSum(SubSeq(s, 1, half)), RSum(SubSeq(s, half + 1, Len(s))))

(* list * n : the list repeated n times, empty when n <= 0 *)
Repeat(s, n) ==
    IF Len(s) = 0 THEN <<>>
    ELSE [k \in 1..(Len(s) * n) |-> s[((k - 1) % Len(s)) + 1]]

RECURSIVE Flatten(_)
Flatten(ss) ==
    IF Len(ss) = 0 THEN <<>>
    ELSE IF Len(ss) = 1 THEN ss[1]
    ELSE LET half == Len(ss) \div 2
         IN  Flatten(SubSeq(ss, 1, half)) \o Flatten(SubSeq(ss, half + 1, Len(ss)))

Range(s) == {s[i] : i \in DOMAIN s}

(* The sequences over S with at most n entries. *)
SeqsUpTo(S, n) == UNION {[1..k -> S] : k \in 0..n}

-----------------------------------------------------------------------------
(* str: sequences of one-character strings *)

Digits == <<"0", "1", "2", "3", "4", "5", "6", "7", "8", "9">>
DigitChars == Range(Digits)
DigitValue(c) == (CHOOSE i \in 1..10 : Digits[i] = c) - 1

RECURSIVE NatValue(_)
NatValue(s) ==
    IF s = <<>> THEN 0
    ELSE NatValue(SubSeq(s, 1, Len(s) - 1)) * 10 + DigitValue(s[Len(s)])

RECURSIVE Strip(_)
Strip(s) ==
    IF s # <<>> /\ s[1] = " " THEN Strip(Tail(s))
    ELSE IF s # <<>> /\ s[Len(s)] = " " THEN Strip(SubSeq(s, 1, Len(s) - 1))
    ELSE s

(* int(str): optional surrounding blanks, an optional sign, one or more digits;
   anything else raises ValueError *)
ParseInt(str) ==
    LET s == Strip(str)
        signed == s # <<>> /\ s[1] \in {"-", "+"}
        body == IF signed THEN Tail(s) ELSE s
    IN  IF body = <<>> \/ \E i \in DOMAIN body : body[i] \notin DigitChars
        THEN Raise("ValueError")
        ELSE Return(IF signed /\ s[1] = "-" THEN -NatValue(body) ELSE NatValue(body))

(* str.split(sep) for a one-character separator *)
RECURSIVE Split(_, _)
Split(s, sep) ==
    IF \A i \in DOMAIN s : s[i] # sep THEN <<s>>
    ELSE LET p == CHOOSE i \in DOMAIN s :
                      s[i] = sep /\ \A j \in 1..(i - 1) : s[j] # sep
         IN  <<SubSeq(s, 1, p - 1)>> \o Split(SubSeq(s, p + 1, Len(s)), sep)

(* a, b = map(int, time_signature.split('/')) : two integers, or ValueError
   (a part that is no integer, or not exactly two parts to unpack) *)
ParseTimeSignature(time_signature) ==
    LET parts == Split(time_signature, "/")
        ints == [i \in DOMAIN parts |-> ParseInt(parts[i])]
    IN  IF Len(parts) >= 1 /\ ~Returned(ints[1]) THEN Raise("ValueError")
        ELSE IF Len(parts) >= 2 /\ ~Returned(ints[2]) THEN Raise("ValueError")
        ELSE IF Len(parts) # 2 THEN Raise("ValueError")
        ELSE Return([beats_per_measure |-> ints[1].value, beat_unit |-> ints[2].value])

(* the decimal numeral of an integer in -99 .. 99 *)
NatToStr(n) ==
    IF n < 10 THEN <<Digits[n + 1]>> ELSE <<Digits[(n \div 10) + 1], Digits[(n % 10) + 1]>>
IntToStr(n) == IF n < 0 THEN <<"-">> \o NatToStr(-n) ELSE NatToStr(n)

-----------------------------------------------------------------------------
(* The lookup tables *)

note_name_to_number ==
    ("C" :> 0) @@ ("C#" :> 1) @@ ("Db" :> 1) @@ ("D" :> 2) @@ ("D#" :> 3) @@
    ("Eb" :> 3) @@ ("E" :> 4) @@ ("F" :> 5) @@ ("F#" :> 6) @@ ("Gb" :> 6) @@
    ("G" :> 7) @@ ("G#" :> 8) @@ ("Ab" :> 8) @@ ("A" :> 9) @@ ("A#" :> 10) @@
    ("Bb" :> 10) @@ ("B" :> 11)

scale_intervals ==
    [major            |-> <<0, 2, 4, 5, 7, 9, 11>>,
     natural_minor    |-> <<0, 2, 3, 5, 7, 8, 10>>,
     harmonic_minor   |-> <<0, 2, 3, 5, 7, 8, 11>>,
     melodic_minor    |-> <<0, 2, 3, 5, 7, 9, 11>>,
     dorian           |-> <<0, 2, 3, 5, 7, 9, 10>>,
     phrygian         |-> <<0, 1, 3, 5, 7, 8, 10>>,
     lydian           |-> <<0, 2, 4, 6, 7, 9, 11>>,
     mixolydian       |-> <<0, 2, 4, 5, 7, 9, 10>>,
     locrian          |-> <<0, 1, 3, 5, 6, 8, 10>>,
     pentatonic_major |-> <<0, 2, 4, 7, 9>>,
     pentatonic_minor |-> <<0, 3, 5, 7, 10>>,
     blues            |-> <<0, 3, 5, 6, 7, 10>>]

instruments ==
    ("Acoustic Grand Piano" :> 0) @@ ("Electric Bass (finger)" :> 33) @@
    ("Electric Guitar (clean)" :> 27) @@ ("Violin" :> 40) @@ ("Trumpet" :> 56)

-----------------------------------------------------------------------------
(* get_scale *)

starting_octave == 4

(* line 71: the MIDI number of one (octave, interval) pair *)
note_number(root_note, interval, octave) == root_note + interval + octave * 12

(* line 72: the pitches that are kept *)
InMidiRange(n) == 0 <= n /\ n <= 127

scale_notes_clamped(root_note, intervals, octaves) ==
    LET L == Len(intervals)
    IN  [k \in 1..(octaves * L) |->
            Min(127, note_number(root_note, intervals[((k - 1) % L) + 1],
                                 starting_octave + ((k - 1) \div L)))]

(* lines 69-73: every octave in turn, every interval in turn, out-of-range
   pitches skipped *)
scale_notes_of(root_note, intervals, octaves) ==
    LET L == Len(intervals)
        all == [k \in 1..(octaves * L) |->
                   note_number(root_note, intervals[((k - 1) % L) + 1],
                               starting_octave + ((k - 1) \div L))]
    IN  SelectSeq(all, InMidiRange)

get_scale_unchecked_type(root_note_name, scale_type, octaves) ==
    IF root_note_name \notin DOMAIN note_name_to_number THEN Raise("ValueError")
    ELSE Return(scale_notes_of(note_name_to_number[root_note_name],
                               IF scale_type \in DOMAIN scale_intervals
                               THEN scale_intervals[scale_type] ELSE <<>>,
                               octaves))

get_scale(root_note_name, scale_type, octaves) ==
    IF root_note_name \notin DOMAIN note_name_to_number THEN Raise("ValueError")
    ELSE IF scale_type \notin DOMAIN scale_intervals THEN Raise("ValueError")
    ELSE Return(scale_notes_of(note_name_to_number[root_note_name],
                               scale_intervals[scale_type], octaves))

-----------------------------------------------------------------------------
(* generate_steady_rhythm *)

beat_duration == One

total_beats_by_unit(length, sig) == length * sig.beat_unit
total_beats(length, sig) == length * sig.beats_per_measure

generate_steady_rhythm(length, time_signature) ==
    LET sig == ParseTimeSignature(time_signature)
    IN  IF ~Returned(sig) THEN sig
        ELSE Return([i \in 1..total_beats(length, sig.value) |-> beat_duration])

-----------------------------------------------------------------------------
(* The random source.  A call draws the values of its tape in order, starting
   over when the tape is exhausted.  A value v stands for random.random()
   returning v/100; there is one value in each interval that the code's
   thresholds 0.02, 0.05, 0.1, 0.2 and 0.5 cut [0, 1) into. *)

RandValues == {1, 3, 7, 15, 30, 70}
Tapes == [1..TapeLen -> RandValues]

(* the tapes tried on the calls that only choose a list element or an integer *)
ChoiceTapes == [1..TapeLen -> {7, 30, 70}]

(* the n-th value (n >= 1) drawn during a call *)
Draw(tape, n) == tape[((n - 1) % Len(tape)) + 1]

(* the tape as a call finds it after n values were drawn *)
Shift(tape, n) == [i \in DOMAIN tape |-> Draw(tape, n + i)]

(* random.choice(seq) for a non-empty seq: the element at the fraction u/100 of
   the list (whichever way the library picks its index, it is one of the
   list's positions) *)
random_choice(seq, u) == seq[((u * Len(seq)) \div 100) + 1]

(* random.randint(a, b), decided by the drawn value u *)
random_randint(a, b, u) == a + ((u * (b - a + 1)) \div 100)

-----------------------------------------------------------------------------
(* generate_melody *)

(* lines 93-95: one event per duration, its note drawn from the scale *)
melody_events(scale_notes, rhythm_pattern, tape) ==
    [i \in 1..Len(rhythm_pattern) |->
        [note |-> random_choice(scale_notes, Draw(tape, i)),
         duration |-> rhythm_pattern[i], velocity |-> 100]]

generate_melody(scale_notes, rhythm_pattern, tape) ==
    IF rhythm_pattern # <<>> /\ scale_notes = <<>>
    THEN Raise("IndexError")      \* random.choice of an empty list
    ELSE Return(melody_events(scale_notes, rhythm_pattern, tape))

(* "note['start_time'] = current_time; current_time += note['duration']" over
   NoteEvents, from current_time = t0 *)
start_times_after_duration(events, t0) ==
    [i \in DOMAIN events |->
        [note |-> events[i].note, duration |-> events[i].duration,
         velocity |-> events[i].velocity,
         start_time |-> RAdd(t0, RSum([j \in 1..i |-> events[j].duration]))]]

assign_start_times(events, t0) ==
    [i \in DOMAIN events |->
        [note |-> events[i].note, duration |-> events[i].duration,
         velocity |-> events[i].velocity,
         start_time |-> RAdd(t0, RSum([j \in 1..(i - 1) |-> events[j].duration]))]]

(* the same loop over ChordEvents *)
assign_chord_start_times(chords, t0) ==
    [i \in DOMAIN chords |->
        [notes |-> chords[i].notes, duration |-> chords[i].duration,
         velocity |-> chords[i].velocity,
         start_time |-> RAdd(t0, RSum([j \in 1..(i - 1) |-> chords[j].duration]))]]

-----------------------------------------------------------------------------
(* generate_chord_progression *)

(* line 111 *)
root_index_of(degree, scale_length) == (degree - 1) % scale_length

adjacent_note_index(root_index, interval_num, scale_length) ==
    (root_index + interval_num) % scale_length
(* lines 117-118 *)
note_index_of(root_index, interval_num, scale_length) ==
    (root_index + interval_num * 2) % scale_length

(* lines 111-120: the root, then chord_size - 1 stacked notes *)
chord_notes_of(scale_notes, degree, chord_size) ==
    LET scale_length == Len(scale_notes)
        root_index == root_index_of(degree, scale_length)
    IN  <<scale_notes[root_index + 1]>> \o
        [k \in 1..(chord_size - 1) |->
            scale_notes[note_index_of(root_index, k, scale_length) + 1]]

generate_chord_progression(scale_notes, progression_pattern, rhythm_pattern, chord_size) ==
    IF rhythm_pattern = <<>> THEN Return(<<>>)
    ELSE IF progression_pattern = <<>> \/ scale_notes = <<>>
    THEN Raise("ZeroDivisionError")    \* i % 0, (degree - 1) % 0
    ELSE Return([i \in 1..Len(rhythm_pattern) |->
            [notes |-> chord_notes_of(scale_notes,
                          progression_pattern[((i - 1) % Len(progression_pattern)) + 1],
                          chord_size),
             duration |-> rhythm_pattern[i],
             velocity |-> 80]])

-----------------------------------------------------------------------------
(* generate_bass_line *)

(* line 144 *)
bass_note_of(note, bass_octave) == note - 12 * (4 - bass_octave)

bass_pattern_once(chord_notes, duration, bass_octave) ==
    [k \in DOMAIN chord_notes |-> bass_note_of(chord_notes[k], bass_octave)]

(* line 145: the transposed chord tones, int(duration) times over *)
bass_pattern(chord_notes, duration, bass_octave) ==
    Repeat([k \in DOMAIN chord_notes |-> bass_note_of(chord_notes[k], bass_octave)],
           Trunc(duration))

(* lines 138-156: the events of the chord that opens measure `measure` *)
bass_events_of_chord(chord, measure, measure_duration, bass_octave) ==
    LET duration == chord.duration
        start_time == IF "start_time" \in DOMAIN chord THEN chord.start_time
                      ELSE RInt(measure * measure_duration)
        pattern == bass_pattern(chord.notes, duration, bass_octave)
        sub_duration == IF Len(pattern) > 0 THEN RDivInt(duration, Len(pattern))
                        ELSE duration
    IN  [k \in DOMAIN pattern |->
            [note |-> pattern[k], duration |-> sub_duration, velocity |-> 100,
             start_time |-> RAdd(start_time, RMul(RInt(k - 1), sub_duration))]]

(* line 134: int(len(chord_progression) / beats_per_measure) *)
total_measures_rounded_up(n_chords, beats_per_measure) ==
    (n_chords + beats_per_measure - 1) \div beats_per_measure
total_measures_of(n_chords, beats_per_measure) ==
    IF beats_per_measure > 0 THEN n_chords \div beats_per_measure
    ELSE -(n_chords \div (-beats_per_measure))

generate_bass_line(chord_progression, time_signature, bass_octave) ==
    LET sig == ParseTimeSignature(time_signature)
    IN  IF ~Returned(sig) THEN sig
        ELSE IF sig.value.beats_per_measure = 0 THEN Raise("ZeroDivisionError")
        ELSE LET beats_per_measure == sig.value.beats_per_measure
                 measure_duration == beats_per_measure * 1
                 total_measures ==
                     total_measures_of(Len(chord_progression), beats_per_measure)
             IN  Return(Flatten(
                    [m \in 1..total_measures |->
                        IF (m - 1) * beats_per_measure < Len(chord_progression)
                        THEN bass_events_of_chord(
                                 chord_progression[(m - 1) * beats_per_measure + 1],
                                 m - 1, measure_duration, bass_octave)
                        ELSE <<>>]))

-----------------------------------------------------------------------------
(* generate_drum_pattern *)

drums ==
    [kick |-> 36, snare |-> 38, closed_hat |-> 42, open_hat |-> 46, low_tom |-> 45,
     mid_tom |-> 48, high_tom |-> 50, crash_cymbal |-> 49, ride_cymbal |-> 51]

drum_beats_per_measure == 4
subdivision == 4
step_duration == Rat(1, subdivision)

(* line 180 *)
total_steps_of(length) == length * drum_beats_per_measure * subdivision

on_beat_of_any_step(step, beats) ==
    (step \div subdivision) % drum_beats_per_measure \in beats
(* lines 190, 193, 204: the step opens a beat whose index in the measure is in `beats` *)
on_beat(step, beats) ==
    step % subdivision = 0 /\ (step \div subdivision) % drum_beats_per_measure \in beats

hat_on_every_step(step) == TRUE
(* lines 196, 209 *)
hat_step(step) == step % (subdivision \div 2) = 0

drum_event(note, step, duration) ==
    [note |-> note, time |-> RMul(RInt(step), step_duration), duration |-> duration]

(* lines 188-197 *)
simple_step_events(step) ==
    (IF on_beat(step, {0, 2}) THEN <<drum_event(drums.kick, step, step_duration)>>
     ELSE <<>>) \o
    (IF on_beat(step, {1, 3}) THEN <<drum_event(drums.snare, step, step_duration)>>
     ELSE <<>>) \o
    (IF hat_step(step) THEN <<drum_event(drums.closed_hat, step, step_duration)>>
     ELSE <<>>)

(* lines 199-218: the events of one step and the number of values drawn so far;
   n values were drawn before the step *)
complex_step(step, tape, n) ==
    LET kick == Draw(tape, n + 1) < 50
        backbeat == on_beat(step, {1, 3})
        n2 == IF backbeat THEN n + 1 ELSE n + 2
        ghost == ~backbeat /\ Draw(tape, n + 2) < 10
        hat == hat_step(step)
        n3 == IF hat THEN n2 + 1 ELSE n2
        open == hat /\ Draw(tape, n3) < 20
        tom == Draw(tape, n3 + 1) < 5
        n4 == IF tom THEN n3 + 2 ELSE n3 + 1
        tom_note == random_choice(<<drums.low_tom, drums.mid_tom, drums.high_tom>>,
                                  Draw(tape, n4))
        crash == Draw(tape, n4 + 1) < 2
    IN  [events |->
            (IF kick THEN <<drum_event(drums.kick, step, step_duration)>> ELSE <<>>) \o
            (IF backbeat THEN <<drum_event(drums.snare, step, step_duration)>>
             ELSE IF ghost
             THEN <<drum_event(drums.snare, step, RMul(step_duration, Rat(1, 2)))>>
             ELSE <<>>) \o
            (IF ~hat THEN <<>>
             ELSE IF open THEN <<drum_event(drums.open_hat, step, step_duration)>>
             ELSE <<drum_event(drums.closed_hat, step, step_duration)>>) \o
            (IF tom THEN <<drum_event(tom_note, step, step_duration)>> ELSE <<>>) \o
            (IF crash THEN <<drum_event(drums.crash_cymbal, step, step_duration)>>
             ELSE <<>>),
         drawn |-> n4 + 1]

(* line 183: the loop over the steps step .. total_steps - 1, the first half of
   the range and then the second, which starts with the values the first left *)
RECURSIVE complex_steps(_, _, _, _)
complex_steps(step, total_steps, tape, n) ==
    IF step >= total_steps THEN [events |-> <<>>, drawn |-> n]
    ELSE IF step + 1 = total_steps THEN complex_step(step, tape, n)
    ELSE LET middle == (step + total_steps) \div 2
         IN  Bind(complex_steps(step, middle, tape, n), LAMBDA first :
             Bind(complex_steps(middle, total_steps, tape, first.drawn), LAMBDA second :
                 [events |-> first.events \o second.events, drawn |-> second.drawn]))

complex_events(step, total_steps, tape, n) ==
    complex_steps(step, total_steps, tape, n).events

(* the number of values drawn once the steps step .. total_steps - 1 are done *)
complex_drawn(step, total_steps, tape, n) ==
    complex_steps(step, total_steps, tape, n).drawn

(* lines 183-224: the complexity is looked at inside the loop over the steps *)
generate_drum_pattern(length, complexity, tape) ==
    LET total_steps == total_steps_of(length)
    IN  IF total_steps <= 0 THEN Return(<<>>)
        ELSE IF complexity = "simple"
        THEN Return(Flatten([s \in 1..total_steps |-> simple_step_events(s - 1)]))
        ELSE IF complexity = "complex"
        THEN Return(complex_events(0, total_steps, tape, 0))
        ELSE Raise("ValueError")

-----------------------------------------------------------------------------
(* The MIDI files.  A file is the notes handed to the writer, track by track;
   its directory and name are left out. *)

(* lines 298-304: the addNote calls of one event *)
event_notes(channel, event) ==
    LET start_time == IF "start_time" \in DOMAIN event THEN event.start_time ELSE Zero
    IN  IF "note" \in DOMAIN event
        THEN <<[channel |-> channel, pitch |-> event.note, time |-> start_time,
                duration |-> event.duration, volume |-> event.velocity]>>
        ELSE IF "notes" \in DOMAIN event
        THEN [k \in DOMAIN event.notes |->
                 [channel |-> channel, pitch |-> event.notes[k], time |-> start_time,
                  duration |-> event.duration, volume |-> event.velocity]]
        ELSE <<>>

create_midi_file(tracks, tempo, time_signature) ==
    [tempo |-> tempo,
     time_signature |-> ParseTimeSignature(time_signature).value,
     tracks |-> [t \in DOMAIN tracks |->
                    [name |-> tracks[t].name, program |-> tracks[t].instrument,
                     notes |-> Flatten([i \in DOMAIN tracks[t].events |->
                                  event_notes(tracks[t].channel, tracks[t].events[i])])]]]

create_drum_midi_file(drum_pattern, tempo) ==
    [tempo |-> tempo,
     tracks |-> <<[name |-> "Drums",
                   notes |-> [i \in DOMAIN drum_pattern |->
                                 [channel |-> 9, pitch |-> drum_pattern[i].note,
                                  time |-> drum_pattern[i].time,
                                  duration |-> drum_pattern[i].duration,
                                  volume |-> 100]]]>>]

-----------------------------------------------------------------------------
(* generate_individual_action: what the handler leaves behind.  `exception` is
   the exception that escapes the handler, "none" when it returns. *)

Outcome(fs, msg, exc, events) ==
    [files |-> fs, message |-> msg, exception |-> exc, events |-> events]

(* lines 540-565 *)
individual_melody(scale_notes, tempo, measures, tape) ==
    LET time_signature == <<"4", "/", "4">>
        rhythm_pattern == generate_steady_rhythm(measures, time_signature).value
        generated == generate_melody(scale_notes, rhythm_pattern, tape)
        melody == assign_start_times(generated.value, Zero)
        tracks == <<[name |-> "Melody", channel |-> 0, events |-> melody,
                     instrument |-> instruments["Electric Guitar (clean)"]]>>
    IN  IF ~Returned(generated) THEN Outcome(<<>>, "none", generated.raised, <<>>)
        ELSE Outcome(<<create_midi_file(tracks, tempo, time_signature)>>, "success",
                     "none", melody)

(* lines 567-608 *)
individual_chords(scale_notes, tempo, measures, tape, include_bass) ==
    LET time_signature == <<"4", "/", "4">>
        progression_pattern ==
            [i \in 1..measures |-> random_randint(1, 7, Draw(tape, i))]
        rhythm_pattern == generate_steady_rhythm(measures, time_signature).value
        generated == generate_chord_progression(scale_notes, progression_pattern,
                                                rhythm_pattern, 3)
        chords == assign_chord_start_times(generated.value, Zero)
        tracks == <<[name |-> "Chords", channel |-> 0, events |-> chords,
                     instrument |-> instruments["Acoustic Grand Piano"]]>>
        bass_tracks ==
            IF include_bass
            THEN <<[name |-> "Bass", channel |-> 1,
                    events |-> generate_bass_line(chords, time_signature, 3).value,
                    instrument |-> instruments["Electric Bass (finger)"]]>>
            ELSE <<>>
    IN  IF ~Returned(generated) THEN Outcome(<<>>, "none", generated.raised, <<>>)
        ELSE Outcome(<<create_midi_file(tracks \o bass_tracks, tempo, time_signature)>>,
                     "success", "none", chords)

(* lines 610-620 *)
individual_drums(tempo, measures, tape, answer) ==
    LET complexity == IF answer THEN "complex" ELSE "simple"
        drum_pattern == generate_drum_pattern(measures, complexity, tape)
    IN  IF ~Returned(drum_pattern) THEN Outcome(<<>>, "none", drum_pattern.raised, <<>>)
        ELSE Outcome(<<create_drum_midi_file(drum_pattern.value, tempo)>>, "success",
                     "none", drum_pattern.value)

(* lines 528-623.  `answer` is what the user answers if a yes/no box is shown. *)
generate_individual_action(part, root_note, scale_type, tempo_entry, measures_entry, tape, answer) ==
    LET tempo == ParseInt(tempo_entry)
        measures == ParseInt(measures_entry)
        scale == IF part # "drums" THEN get_scale(root_note, scale_type, 1)
                 ELSE Return(<<>>)
    IN  IF ~Returned(tempo) \/ ~Returned(measures) \/ ~Returned(scale)
        THEN Outcome(<<>>, "error", "none", <<>>)
        ELSE IF part = "melody"
        THEN individual_melody(scale.value, tempo.value, measures.value, tape)
        ELSE IF part = "chords"
        THEN individual_chords(scale.value, tempo.value, measures.value, tape, answer)
        ELSE IF part = "drums"
        THEN individual_drums(tempo.value, measures.value, tape, answer)
        ELSE Outcome(<<>>, "error", "none", <<>>)

(* the handler shows a yes/no box: both entries are integers, the scale exists,
   and the part is chords (the bass line) or drums (the complexity) *)
asks_yes_no(part, root_note, scale_type, tempo_entry, measures_entry) ==
    /\ part \in {"chords", "drums"}
    /\ Returned(ParseInt(tempo_entry))
    /\ Returned(ParseInt(measures_entry))
    /\ part = "drums" \/ Returned(get_scale(root_note, scale_type, 1))

(* the handler draws from the random source *)
draws_random(part, root_note, scale_type, tempo_entry, measures_entry, answer) ==
    /\ Returned(ParseInt(tempo_entry))
    /\ Returned(ParseInt(measures_entry))
    /\ ParseInt(measures_entry).value > 0
    /\ \/ part \in {"melody", "chords"} /\ Returned(get_scale(root_note, scale_type, 1))
       \/ part = "drums" /\ answer

-----------------------------------------------------------------------------
(* generate_song_action *)

total_length == 32
section_length == 8
sections == <<"Verse", "Chorus", "Verse", "Chorus">>

(* lines 247-283 *)
create_combined_midi_file(tracks, drum_pattern, tempo, time_signature) ==
    [tempo |-> tempo,
     time_signature |-> ParseTimeSignature(time_signature).value,
     tracks |-> create_midi_file(tracks, tempo, time_signature).tracks \o
                create_drum_midi_file(drum_pattern, tempo).tracks]

melody_offset_after_chords(current_time, section_rhythm) == current_time
(* line 403: current_time has run over the section's chords already *)
melody_offset(current_time, section_rhythm) == RSub(current_time, RSum(section_rhythm))

(* lines 383-423: one section, begun at current_time after n values were drawn *)
song_section(scale_notes, include_bass, tape, n, current_time) ==
    LET time_signature == <<"4", "/", "4">>
        progression_pattern ==
            [i \in 1..section_length |-> random_randint(1, 7, Draw(tape, n + i))]
    IN  Bind(generate_steady_rhythm(section_length, time_signature).value,
             LAMBDA section_rhythm :
        Bind(generate_chord_progression(scale_notes, progression_pattern,
                                        section_rhythm, 3).value,
             LAMBDA generated_chords :
        Bind(assign_chord_start_times(generated_chords, current_time),
             LAMBDA chords :
        Bind(RAdd(current_time, RSum(section_rhythm)),
             LAMBDA end_time :
        Bind(generate_melody(scale_notes, section_rhythm,
                             Shift(tape, n + section_length)).value,
             LAMBDA melody :
            [chords |-> chords,
             melody |-> assign_start_times(melody,
                                           melody_offset(end_time, section_rhythm)),
             bass |-> IF include_bass = "yes"
                      THEN generate_bass_line(chords, time_signature, 3).value
                      ELSE <<>>,
             drawn |-> n + section_length + Len(section_rhythm),
             current_time |-> end_time])))))

(* line 382: the sections in turn, each from where the one before it stopped *)
RECURSIVE song_sections(_, _, _, _, _, _)
song_sections(k, scale_notes, include_bass, tape, n, current_time) ==
    IF k > Len(sections) THEN <<>>
    ELSE Bind(song_section(scale_notes, include_bass, tape, n, current_time),
              LAMBDA s :
                  <<s>> \o song_sections(k + 1, scale_notes, include_bass, tape,
                                         s.drawn, s.current_time))

(* lines 425-445: the events of a part, section after section *)
song_tracks(parts, include_bass) ==
    <<[name |-> "Chords", channel |-> 0,
       events |-> Flatten([k \in DOMAIN parts |-> parts[k].chords]),
       instrument |-> instruments["Acoustic Grand Piano"]],
      [name |-> "Melody", channel |-> 1,
       events |-> Flatten([k \in DOMAIN parts |-> parts[k].melody]),
       instrument |-> instruments["Violin"]]>> \o
    (IF include_bass = "yes"
     THEN <<[name |-> "Bass", channel |-> 2,
             events |-> Flatten([k \in DOMAIN parts |-> parts[k].bass]),
             instrument |-> instruments["Electric Bass (finger)"]]>>
     ELSE <<>>)

(* lines 447-494: a file for each part, one for the drums, one for the song *)
song_files(tracks, drum_pattern, tempo) ==
    LET time_signature == <<"4", "/", "4">>
    IN  Outcome([t \in DOMAIN tracks |->
                    create_midi_file(<<tracks[t]>>, tempo, time_signature)] \o
                <<create_drum_midi_file(drum_pattern, tempo),
                  create_combined_midi_file(tracks, drum_pattern, tempo,
                                            time_signature)>>,
                "success", "none",
                [chords |-> tracks[1].events, melody |-> tracks[2].events,
                 bass |-> IF Len(tracks) > 2 THEN tracks[3].events ELSE <<>>,
                 drums |-> drum_pattern])

(* lines 352-494 *)
generate_song_action(root_note, scale_type, include_bass, tape) ==
    LET tempo == random_randint(60, 140, Draw(tape, 1))
        scale == get_scale(root_note, scale_type, 1)
        drum_tape == Shift(tape, 1)
    IN  IF ~Returned(scale) THEN Outcome(<<>>, "error", "none", <<>>)
        ELSE Bind(generate_drum_pattern(total_length, "complex", drum_tape).value,
                  LAMBDA drum_pattern :
             Bind(1 + complex_drawn(0, total_steps_of(total_length), drum_tape, 0),
                  LAMBDA drawn :
             Bind(song_sections(1, scale.value, include_bass, tape, drawn, Zero),
                  LAMBDA parts :
             Bind(song_tracks(parts, include_bass),
                  LAMBDA tracks : song_files(tracks, drum_pattern, tempo)))))

-----------------------------------------------------------------------------
(* Inputs *)

RootInputs == DOMAIN note_name_to_number \cup {"H", "c"}
ScaleTypeInputs == DOMAIN scale_intervals \cup {"minor"}
TimeSignatureInputs ==
    {<<"4", "/", "4">>, <<"3", "/", "4">>, <<"6", "/", "8">>, <<"2", "/", "2">>,
     <<"1", "/", "4">>, <<"4">>, <<"4", "/", "x">>, <<"4", "/", "4", "/", "4">>}

(* scales handed to the melody, chord and bass generators: of 5, 6 and 7 notes
   per octave, and the empty scale *)
ScaleInputs ==
    {scale_notes_of(0, scale_intervals.major, 1),
     scale_notes_of(9, scale_intervals.pentatonic_minor, 2),
     scale_notes_of(11, scale_intervals.blues, 1),
     <<>>}

DurationInputs == {Rat(1, 2), One, RInt(2)}
RhythmInputs == SeqsUpTo(DurationInputs, MaxRhythmLen)

ProgressionInputs ==
    {<<>>, <<1, 4, 5>>} \cup {<<d>> : d \in 0..8} \cup {<<7, d>> : d \in {1, 6}}

BassTimeSignatureInputs ==
    {<<"1", "/", "4">>, <<"2", "/", "4">>, <<"4", "/", "4">>, <<"4">>}
BassOctaveInputs == {-1, 2, 3}

ComplexityInputs == {"simple", "complex", "medium", "Simple"}

PartInputs == {"melody", "chords", "drums", "import"}
HandlerRootInputs == {"C", "H"}
HandlerScaleInputs == {"major", "blues"}
TempoEntries == {<<"1", "2", "0">>, <<"f", "a", "s", "t">>}
MeasuresEntries ==
    {IntToStr(m) : m \in -1..MaxMeasures} \cup {<<>>, <<" ", "1">>, <<"1", ".", "5">>}

-----------------------------------------------------------------------------
(* The state machine: the GUI waits in its main loop; a call runs to its end;
   control returns to the main loop. *)

Init ==
    /\ call = "mainloop"
    /\ args = [none |-> TRUE]
    /\ rand = <<>>
    /\ result = [raised |-> "idle"]
    /\ files = <<>>
    /\ message = "none"

CallGetScale ==
    /\ call = "mainloop"
    /\ \E root_note_name \in RootInputs, scale_type \in ScaleTypeInputs,
          octaves \in -1..MaxOctaves :
          /\ args' = [root_note_name |-> root_note_name, scale_type |-> scale_type,
                      octaves |-> octaves]
          /\ result' = get_scale(root_note_name, scale_type, octaves)
    /\ call' = "get_scale"
    /\ UNCHANGED <<rand, files, message>>

CallGenerateSteadyRhythm ==
    /\ call = "mainloop"
    /\ \E length \in -1..MaxMeasures, time_signature \in TimeSignatureInputs :
          /\ args' = [length |-> length, time_signature |-> time_signature]
          /\ result' = generate_steady_rhythm(length, time_signature)
    /\ call' = "generate_steady_rhythm"
    /\ UNCHANGED <<rand, files, message>>

(* generate_melody, then the stamping loop of lines 544-547 on what it returned *)
CallGenerateMelody ==
    /\ call = "mainloop"
    /\ \E scale_notes \in ScaleInputs, rhythm_pattern \in RhythmInputs :
       \E tape \in IF rhythm_pattern # <<>> /\ scale_notes # <<>> THEN ChoiceTapes
                   ELSE {<<>>} :
          LET melody == generate_melody(scale_notes, rhythm_pattern, tape)
          IN  /\ args' = [scale_notes |-> scale_notes, rhythm_pattern |-> rhythm_pattern]
              /\ rand' = tape
              /\ result' = IF Returned(melody)
                           THEN Return(assign_start_times(melody.value, Zero))
                           ELSE melody
    /\ call' = "generate_melody"
    /\ UNCHANGED <<files, message>>

CallGenerateChordProgression ==
    /\ call = "mainloop"
    /\ \E scale_notes \in ScaleInputs, progression_pattern \in ProgressionInputs,
          rhythm_pattern \in RhythmInputs, chord_size \in 0..MaxChordSize :
          /\ args' = [scale_notes |-> scale_notes,
                      progression_pattern |-> progression_pattern,
                      rhythm_pattern |-> rhythm_pattern, chord_size |-> chord_size]
          /\ result' = generate_chord_progression(scale_notes, progression_pattern,
                                                  rhythm_pattern, chord_size)
    /\ call' = "generate_chord_progression"
    /\ UNCHANGED <<rand, files, message>>

(* generate_bass_line on the chords of a progression, with or without start times *)
CallGenerateBassLine ==
    /\ call = "mainloop"
    /\ \E scale_notes \in ScaleInputs \ {<<>>}, rhythm_pattern \in RhythmInputs,
          chord_size \in 1..MaxChordSize, stamped \in BOOLEAN,
          time_signature \in BassTimeSignatureInputs, bass_octave \in BassOctaveInputs :
          LET chords == generate_chord_progression(scale_notes, <<1, 4, 5>>,
                                                   rhythm_pattern, chord_size).value
              chord_progression == IF stamped THEN assign_chord_start_times(chords, Zero)
                                   ELSE chords
          IN  /\ args' = [chord_progression |-> chord_progression,
                          time_signature |-> time_signature,
                          bass_octave |-> bass_octave]
              /\ result' = generate_bass_line(chord_progression, time_signature,
                                              bass_octave)
    /\ call' = "generate_bass_line"
    /\ UNCHANGED <<rand, files, message>>

CallGenerateDrumPattern ==
    /\ call = "mainloop"
    /\ \E length \in -1..MaxMeasures, complexity \in ComplexityInputs :
       \E tape \in IF complexity = "complex" /\ length > 0 THEN Tapes ELSE {<<>>} :
          /\ args' = [length |-> length, complexity |-> complexity]
          /\ rand' = tape
          /\ result' = generate_drum_pattern(length, complexity, tape)
    /\ call' = "generate_drum_pattern"
    /\ UNCHANGED <<files, message>>

(* the Generate button of the "Generate Individual Part" window; the user
   answers the yes/no box if one is shown *)
GenerateIndividualAction ==
    /\ call = "mainloop"
    /\ \E part \in PartInputs, root_note \in HandlerRootInputs,
          scale_type \in HandlerScaleInputs, tempo \in TempoEntries,
          measures \in MeasuresEntries :
       \E answer \in IF asks_yes_no(part, root_note, scale_type, tempo, measures)
                     THEN {"yes", "no"} ELSE {"not asked"} :
       \E tape \in IF draws_random(part, root_note, scale_type, tempo, measures,
                                   answer = "yes")
                   THEN (IF part = "drums" THEN Tapes ELSE ChoiceTapes) ELSE {<<>>} :
          LET out == generate_individual_action(part, root_note, scale_type, tempo,
                                                measures, tape, answer = "yes")
          IN  /\ args' = [part |-> part, root_note |-> root_note,
                          scale_type |-> scale_type, tempo |-> tempo,
                          measures |-> measures, answer |-> answer]
              /\ rand' = tape
              /\ result' = IF out.exception = "none" THEN Return(out.events)
                           ELSE Raise(out.exception)
              /\ files' = out.files
              /\ message' = out.message
    /\ call' = "generate_individual_action"

(* the Generate button of the "Generate Song" window *)
GenerateSongAction ==
    /\ call = "mainloop"
    /\ \E root_note \in HandlerRootInputs, scale_type \in HandlerScaleInputs,
          include_bass \in {"yes", "no"}, tape \in ChoiceTapes :
          LET out == generate_song_action(root_note, scale_type, include_bass, tape)
          IN  /\ args' = [root_note |-> root_note, scale_type |-> scale_type,
                          include_bass |-> include_bass]
              /\ rand' = tape
              /\ result' = Return(out.events)
              /\ files' = out.files
              /\ message' = out.message
    /\ call' = "generate_song_action"

(* the call returns and the GUI waits for the next event *)
BackToMainloop ==
    /\ call # "mainloop"
    /\ call' = "mainloop"
    /\ args' = [none |-> TRUE]
    /\ rand' = <<>>
    /\ result' = [raised |-> "idle"]
    /\ files' = <<>>
    /\ message' = "none"

Next ==
    \/ CallGetScale
    \/ CallGenerateSteadyRhythm
    \/ CallGenerateMelody
    \/ CallGenerateChordProgression
    \/ CallGenerateBassLine
    \/ CallGenerateDrumPattern
    \/ GenerateIndividualAction
    \/ GenerateSongAction
    \/ BackToMainloop

Spec == Init /\ [][Next]_vars

-----------------------------------------------------------------------------
(* The properties *)

(* C1: get_scale with root C, mode major and an octave span of 1 returns
   exactly <<60, 62, 64, 65, 67, 69, 71>>, and in general the first pitch of
   the scale of root pitch-class r is 60 + r (C4 = MIDI note 60). *)
C1_ScaleStartsAtC4 ==
    (call = "get_scale" /\ Returned(result) /\ args.octaves >= 1) =>
        /\ result.value # <<>>
        /\ result.value[1] = 60 + note_name_to_number[args.root_note_name]
        /\ (args.root_note_name = "C" /\ args.scale_type = "major" /\ args.octaves = 1)
              => result.value = <<60, 62, 64, 65, 67, 69, 71>>

(* the (octave, interval) pairs of a call whose pitch exceeds 127, counted as
   the claim counts them *)
PairsAbove127(root_note_name, scale_type, octaves) ==
    {p \in (4..(3 + octaves)) \X DOMAIN scale_intervals[scale_type] :
        note_name_to_number[root_note_name] + scale_intervals[scale_type][p[2]]
            + 12 * p[1] > 127}

(* C2: for every root name and mode of the tables and every octave span >= 1,
   the scale get_scale returns is non-decreasing, holds only pitches in
   0..127, and has octaves * |intervals| entries less one for every (octave,
   interval) pair whose pitch exceeds 127. *)
C2_ScaleShape ==
    (call = "get_scale" /\ Returned(result) /\ args.octaves >= 1) =>
        LET scale == result.value
        IN  /\ \A i \in 1..(Len(scale) - 1) : scale[i] <= scale[i + 1]
            /\ \A i \in DOMAIN scale : scale[i] \in 0..127
            /\ Len(scale) =
                  args.octaves * Len(scale_intervals[args.scale_type])
                  - Cardinality(PairsAbove127(args.root_note_name, args.scale_type,
                                              args.octaves))

(* a scale that lost pitches above 127 *)
C2_Witness ==
    /\ call = "get_scale" /\ Returned(result) /\ args.octaves >= 1
    /\ result.value # <<>>
    /\ Len(result.value) < args.octaves * Len(scale_intervals[args.scale_type])

(* C3: get_scale raises ValueError and returns nothing when the root name is
   not in the note table or the mode is not in the interval table, and
   returns a scale for every pair of names that are in the tables. *)
C3_InvalidNames ==
    call = "get_scale" =>
        IF /\ args.root_note_name \in DOMAIN note_name_to_number
           /\ args.scale_type \in DOMAIN scale_intervals
        THEN Returned(result) /\ "value" \in DOMAIN result
        ELSE result.raised = "ValueError" /\ "value" \notin DOMAIN result

(* a known root with an unknown mode is refused *)
C3_Witness ==
    /\ call = "get_scale"
    /\ args.octaves = 1
    /\ args.root_note_name \in DOMAIN note_name_to_number
    /\ args.scale_type \notin DOMAIN scale_intervals
    /\ result.raised = "ValueError"

(* the N of the time signatures "N/M" that are tried *)
BeatsOf(time_signature) ==
    CASE time_signature = <<"4", "/", "4">> -> 4
      [] time_signature = <<"3", "/", "4">> -> 3
      [] time_signature = <<"6", "/", "8">> -> 6
      [] time_signature = <<"2", "/", "2">> -> 2
      [] time_signature = <<"2", "/", "4">> -> 2
      [] time_signature = <<"1", "/", "4">> -> 1
      [] OTHER -> -1

(* C4: for a measure count >= 0 and a time signature "N/M",
   generate_steady_rhythm returns measures * N entries, each of 1 beat, so
   the pattern sums to measures * N whatever the beat unit M is. *)
C4_SteadyRhythm ==
    (/\ call = "generate_steady_rhythm"
     /\ BeatsOf(args.time_signature) > 0
     /\ args.length >= 0) =>
        /\ Returned(result)
        /\ Len(result.value) = args.length * BeatsOf(args.time_signature)
        /\ \A i \in DOMAIN result.value : result.value[i] = One
        /\ RSum(result.value) = RInt(args.length * BeatsOf(args.time_signature))

(* two measures of 6/8: twelve beats, not sixteen *)
C4_Witness ==
    /\ call = "generate_steady_rhythm"
    /\ args.length = 2
    /\ args.time_signature = <<"6", "/", "8">>
    /\ Returned(result)
    /\ Len(result.value) = 12

(* C5: for a non-empty scale and any rhythm pattern, the melody has one event
   per rhythm entry, the i-th carrying the i-th duration and a pitch of the
   scale, and once stamped each event starts at the sum of the durations
   before it (0, 1, ..., 7 for two steady measures of 4/4). *)
C5_MelodyEvents ==
    /\ (call = "generate_melody" /\ args.scale_notes # <<>>) =>
          /\ Returned(result)
          /\ Len(result.value) = Len(args.rhythm_pattern)
          /\ \A i \in DOMAIN result.value :
                /\ result.value[i].duration = args.rhythm_pattern[i]
                /\ result.value[i].note \in Range(args.scale_notes)
                /\ result.value[i].start_time =
                      RSum(SubSeq(args.rhythm_pattern, 1, i - 1))
    /\ (/\ call = "generate_individual_action" /\ args.part = "melody"
        /\ message = "success" /\ args.measures = <<"2">>) =>
          /\ Len(result.value) = 8
          /\ \A i \in 1..8 :
                /\ result.value[i].start_time = RInt(i - 1)
                /\ result.value[i].duration = One
                /\ result.value[i].note \in
                      Range(get_scale(args.root_note, args.scale_type, 1).value)

(* a two-measure melody of eight events that does not stay on one pitch *)
C5_Witness ==
    /\ call = "generate_individual_action" /\ args.part = "melody"
    /\ message = "success" /\ args.measures = <<"2">>
    /\ Len(result.value) = 8
    /\ result.value[8].start_time = RInt(7)
    /\ result.value[1].note # result.value[2].note

(* C6: for a non-empty scale, a non-empty progression, any rhythm pattern and
   a chord size N >= 1, there is one chord per rhythm slot i; its degree is
   progression[i mod len(progression)], its root scale[(degree - 1) mod L],
   and it has exactly N pitches, the k-th (k = 0 .. N-1) being
   scale[(rootIndex + 2k) mod L]. *)
C6_ChordStacking ==
    (/\ call = "generate_chord_progression"
     /\ args.scale_notes # <<>> /\ args.progression_pattern # <<>>
     /\ args.chord_size >= 1) =>
        LET scale == args.scale_notes
            L == Len(scale)
            P == Len(args.progression_pattern)
        IN  /\ Returned(result)
            /\ Len(result.value) = Len(args.rhythm_pattern)
            /\ \A i \in DOMAIN result.value :
                  LET degree == args.progression_pattern[((i - 1) % P) + 1]
                      rootIndex == (degree - 1) % L
                      notes == result.value[i].notes
                  IN  /\ Len(notes) = args.chord_size
                      /\ notes[1] = scale[rootIndex + 1]
                      /\ \A k \in 0..(args.chord_size - 1) :
                            notes[k + 1] = scale[((rootIndex + 2 * k) % L) + 1]
                      /\ result.value[i].duration = args.rhythm_pattern[i]

(* degree 4 of a 7-note scale, as a triad: scale indices 3, 5, 0 *)
C6_Witness ==
    /\ call = "generate_chord_progression"
    /\ Len(args.scale_notes) = 7
    /\ args.progression_pattern = <<1, 4, 5>>
    /\ args.chord_size = 3
    /\ Returned(result)
    /\ Len(result.value) >= 2
    /\ result.value[1].notes =
          <<args.scale_notes[1], args.scale_notes[3], args.scale_notes[5]>>
    /\ result.value[2].notes =
          <<args.scale_notes[4], args.scale_notes[6], args.scale_notes[1]>>

(* the chords generate_bass_line arpeggiates: the first of every full measure *)
ArpeggiatedChords(chord_progression, time_signature) ==
    LET bpm == BeatsOf(time_signature)
    IN  [m \in 1..(Len(chord_progression) \div bpm) |->
            LET chord == chord_progression[(m - 1) * bpm + 1]
            IN  [notes |-> chord.notes, duration |-> chord.duration,
                 start_time |-> IF "start_time" \in DOMAIN chord THEN chord.start_time
                                ELSE RInt((m - 1) * bpm)]]

(* `times` runs through the tones of the chord, transposed to the bass octave,
   as events of equal length laid end to end from the chord's start and filling
   its duration *)
ArpeggioOf(chord, bass_octave, times) ==
    LET size == Len(chord.notes)
        each == RDivInt(chord.duration, size * times)
    IN  [k \in 1..(size * times) |->
            <<chord.notes[((k - 1) % size) + 1] - 12 * (4 - bass_octave),
              each,
              RAdd(chord.start_time, RMul(RInt(k - 1), each))>>]

BassEventsAsTriples ==
    [i \in DOMAIN result.value |->
        <<result.value[i].note, result.value[i].duration, result.value[i].start_time>>]

(* C7 as claimed: for every chord that generate_bass_line arpeggiates,
   whatever its duration (> 0) and size, the bass events of its span are one
   NoteEvent per chord tone in the given order, each duration / chordSize
   long, from the chord's start and end to end, summing to the chord's
   duration. *)
C7_OneEventPerTone ==
    (call = "generate_bass_line" /\ Returned(result)) =>
        LET chords == ArpeggiatedChords(args.chord_progression, args.time_signature)
        IN  /\ BassEventsAsTriples =
                  Flatten([m \in DOMAIN chords |->
                              ArpeggioOf(chords[m], args.bass_octave, 1)])
            /\ RSum([i \in DOMAIN result.value |-> result.value[i].duration]) =
                  RSum([m \in DOMAIN chords |-> chords[m].duration])

(* C7 as the code has it: the tones of an arpeggiated chord of duration d are
   run through int(d) times, as chordSize * int(d) events of
   d / (chordSize * int(d)) each, from the chord's start and end to end; they
   sum to d when d >= 1, and a chord shorter than one beat gets no event. *)
C7_ArpeggioPerBeat ==
    (call = "generate_bass_line" /\ Returned(result)) =>
        LET chords == ArpeggiatedChords(args.chord_progression, args.time_signature)
            sounding == SelectSeq(chords, LAMBDA c : Trunc(c.duration) >= 1)
        IN  /\ BassEventsAsTriples =
                  Flatten([m \in DOMAIN sounding |->
                              ArpeggioOf(sounding[m], args.bass_octave,
                                         Trunc(sounding[m].duration))])
            /\ RSum([i \in DOMAIN result.value |-> result.value[i].duration]) =
                  RSum([m \in DOMAIN sounding |-> sounding[m].duration])

(* a triad of two beats arpeggiated twice over, in six events *)
C7_Witness ==
    /\ call = "generate_bass_line" /\ Returned(result)
    /\ args.time_signature = <<"1", "/", "4">>
    /\ Len(args.chord_progression) = 1
    /\ Len(args.chord_progression[1].notes) = 3
    /\ args.chord_progression[1].duration = RInt(2)
    /\ Len(result.value) = 6
    /\ result.value[6].start_time = Rat(5, 3)

(* the simple pattern of `length` measures, step by step on the grid of 16
   steps a measure: kick on beats 1 and 3, snare on beats 2 and 4, closed
   hi-hat on the even steps *)
SimplePattern(length) ==
    Flatten([s \in 1..(16 * length) |->
        LET step == s - 1
            at(note) == [note |-> note, time |-> Rat(step, 4), duration |-> Rat(1, 4)]
        IN  (IF step % 16 \in {0, 8} THEN <<at(36)>> ELSE <<>>) \o
            (IF step % 16 \in {4, 12} THEN <<at(38)>> ELSE <<>>) \o
            (IF step % 2 = 0 THEN <<at(42)>> ELSE <<>>)])

(* C8: with complexity 'simple', generate_drum_pattern returns, whatever the
   random source holds, exactly the kicks of beats 1 and 3, the snares of
   beats 2 and 4 and the closed hi-hats of the even steps of every measure,
   each at step / 4 and 1/4 beat long: the measure count alone decides it. *)
C8_SimplePattern ==
    /\ (call = "generate_drum_pattern" /\ args.complexity = "simple") =>
          Returned(result) /\ result.value = SimplePattern(args.length)
    /\ (/\ call = "generate_individual_action" /\ args.part = "drums"
        /\ args.answer = "no"
        /\ \E m \in 1..MaxMeasures : args.measures = IntToStr(m)) =>
          Returned(result) /\ result.value = SimplePattern(NatValue(args.measures))

(* two measures of the simple pattern: 4 kicks, 4 snares, 16 hi-hats *)
C8_Witness ==
    /\ call = "generate_drum_pattern" /\ args.complexity = "simple"
    /\ args.length = 2
    /\ Returned(result)
    /\ Len(result.value) = 24
    /\ Len(SelectSeq(result.value, LAMBDA e : e.note = 42)) = 16

(* C9 as claimed: for a complexity that is neither 'simple' nor 'complex',
   generate_drum_pattern raises ValueError and returns nothing, whatever the
   measure count, one that yields no step included. *)
C9_UnknownComplexityRaises ==
    (call = "generate_drum_pattern" /\ args.complexity \notin {"simple", "complex"}) =>
        result.raised = "ValueError" /\ "value" \notin DOMAIN result

(* C10 as claimed: a request with a non-positive measure count is refused
   with an error before any generator runs: no event is generated and no
   file is written. *)
C10_NonPositiveMeasuresRefused ==
    (/\ call = "generate_individual_action"
     /\ args.measures \in {<<"0">>, <<"-", "1">>}) =>
        /\ message = "error"
        /\ files = <<>>
        /\ Returned(result) => result.value = <<>>

-----------------------------------------------------------------------------
(* Song sections *)

SongGenerated == call = "generate_song_action" /\ message = "success"

(* the order of two times *)
RLeq(a, b) == a[1] * b[2] <= b[1] * a[2]
RLess(a, b) == a[1] * b[2] < b[1] * a[2]

(* the total of the rhythm pattern every section of the song is built on *)
SectionTotal == RSum(generate_steady_rhythm(section_length, <<"4", "/", "4">>).value)

(* the sum of the rhythm-pattern totals of the sections 0 .. k-1 *)
SectionOffset(k) == RMul(RInt(k), SectionTotal)

(* the events of a part are in non-decreasing order of start_time *)
SortedByStartTime(events) ==
    \A i, j \in DOMAIN events : i < j => RLeq(events[i].start_time, events[j].start_time)

(* the start of event i of a part within its section: the durations of the
   events of the same section that come before it *)
StartWithinSection(events, per_section, i) ==
    RSum([j \in 1..((i - 1) % per_section) |->
             events[((i - 1) \div per_section) * per_section + j].duration])

(* every event of a part that puts per_section events into each section is
   stamped with the offset of its section plus its start within the section *)
StampedBySection(events, per_section) ==
    \A i \in DOMAIN events :
        events[i].start_time =
            RAdd(SectionOffset((i - 1) \div per_section),
                 StartWithinSection(events, per_section, i))

(* C11: in a generated song every chord, melody and bass event of section k
   starts at the sum of the rhythm totals of the sections before k plus its
   start within the section (for a bass event: the start of the chord it
   arpeggiates plus the sub-durations played before it), each part is in
   non-decreasing order of start time, and the chords and the melody of one
   section start at the same offset. *)
C11_SectionsStamped ==
    SongGenerated =>
        LET song == result.value
            per_section == Len(generate_steady_rhythm(section_length,
                                                      <<"4", "/", "4">>).value)
            per_measure == 3
            measures_per_section == per_section \div 4
        IN  /\ Len(song.chords) = Len(sections) * per_section
            /\ Len(song.melody) = Len(sections) * per_section
            /\ StampedBySection(song.chords, per_section)
            /\ StampedBySection(song.melody, per_section)
            /\ args.include_bass = "yes" =>
                  /\ Len(song.bass) = Len(sections) * measures_per_section * per_measure
                  /\ \A e \in DOMAIN song.bass :
                        LET m == (e - 1) \div per_measure
                            chord == song.chords[m * 4 + 1]
                        IN  song.bass[e].start_time =
                                RAdd(chord.start_time,
                                     RMul(RInt((e - 1) % per_measure),
                                          song.bass[e].duration))
            /\ args.include_bass # "yes" => song.bass = <<>>
            /\ SortedByStartTime(song.chords)
            /\ SortedByStartTime(song.melody)
            /\ SortedByStartTime(song.bass)
            /\ \A k \in 0..(Len(sections) - 1) :
                  /\ song.chords[k * per_section + 1].start_time = SectionOffset(k)
                  /\ song.melody[k * per_section + 1].start_time = SectionOffset(k)

(* a song with a bass part whose last section has been stamped *)
C11_Witness ==
    /\ SongGenerated
    /\ args.include_bass = "yes"
    /\ \E e \in DOMAIN result.value.bass :
          RLeq(SectionOffset(Len(sections) - 1), result.value.bass[e].start_time)
    /\ \E i \in DOMAIN result.value.melody :
          /\ result.value.melody[i].start_time = SectionOffset(Len(sections) - 1)
          /\ result.value.chords[i].start_time = SectionOffset(Len(sections) - 1)

-----------------------------------------------------------------------------
(* The complex drum pattern *)

(* the step a drum event was emitted on, if its time is step / 4 *)
StepOf(event) == Trunc(RMul(event.time, RInt(4)))

(* the positions of the events of a pattern that sound one of the notes *)
EventsWith(pattern, notes) == {i \in DOMAIN pattern : pattern[i].note \in notes}

(* what a complex pattern of `length` measures has to look like *)
ComplexPatternShape(pattern, length) ==
    LET steps == 0..(16 * length - 1)
        backbeats == {step \in steps : step % 16 \in {4, 12}}
        even_steps == {step \in steps : step % 2 = 0}
        snares == EventsWith(pattern, {38})
        hats == EventsWith(pattern, {42, 46})
    IN  /\ \A i \in DOMAIN pattern :
              /\ StepOf(pattern[i]) \in steps
              /\ pattern[i].time = Rat(StepOf(pattern[i]), 4)
        /\ \A i \in DOMAIN pattern :
              i > 1 => StepOf(pattern[i - 1]) <= StepOf(pattern[i])
        /\ \A i \in snares :
              IF StepOf(pattern[i]) \in backbeats
              THEN pattern[i].duration = Rat(1, 4)
              ELSE pattern[i].duration = Rat(1, 8)
        /\ {StepOf(pattern[i]) : i \in snares} \cap backbeats = backbeats
        /\ Cardinality({i \in snares : StepOf(pattern[i]) \in backbeats}) =
              Cardinality(backbeats)
        /\ {StepOf(pattern[i]) : i \in hats} = even_steps
        /\ Cardinality(hats) = Cardinality(even_steps)

(* C12: whatever the random source holds, the complex pattern has exactly one
   snare of 1/4 beat on every step that opens beat 2 or 4 of a measure, every
   other snare is 1/8 beat long and on another step, every even step has
   exactly one hi-hat (open or closed) and no odd step has one, and the events
   come in the order of their steps, each at step / 4 with
   0 <= step < 16 x measures. *)
C12_ComplexPattern ==
    /\ (call = "generate_drum_pattern" /\ args.complexity = "complex") =>
          /\ Returned(result)
          /\ ComplexPatternShape(result.value, IF args.length > 0 THEN args.length ELSE 0)
    /\ SongGenerated => ComplexPatternShape(result.value.drums, total_length)

(* a complex pattern with a ghost snare, an open and a closed hi-hat, a tom
   and a crash *)
C12_Witness ==
    /\ call = "generate_drum_pattern" /\ args.complexity = "complex"
    /\ args.length = MaxMeasures
    /\ Returned(result)
    /\ \E i \in DOMAIN result.value :
          result.value[i].note = 38 /\ result.value[i].duration = Rat(1, 8)
    /\ \E i \in DOMAIN result.value :
          result.value[i].note = 38 /\ result.value[i].duration = Rat(1, 4)
    /\ EventsWith(result.value, {42}) # {}
    /\ EventsWith(result.value, {46}) # {}
    /\ EventsWith(result.value, {45, 48, 50}) # {}
    /\ EventsWith(result.value, {49}) # {}

-----------------------------------------------------------------------------
(* Pitches *)

(* every pitch written to a file is a MIDI pitch *)
FilePitchesInRange ==
    \A f \in DOMAIN files : \A t \in DOMAIN files[f].tracks :
        \A k \in DOMAIN files[f].tracks[t].notes :
            InMidiRange(files[f].tracks[t].notes[k].pitch)

(* C13 as claimed: every pitch of every event of every part is in 0..127: the
   pitches of a melody and of a chord progression are members of the scale
   they were generated from, and the bass line transposes the chord tones by
   12 x (4 - bass_octave) into 0..127 whatever the bass octave is. *)
C13_PitchesInRange ==
    /\ (call = "generate_melody" /\ Returned(result)) =>
          \A i \in DOMAIN result.value :
              /\ result.value[i].note \in Range(args.scale_notes)
              /\ InMidiRange(result.value[i].note)
    /\ (call = "generate_chord_progression" /\ Returned(result)) =>
          \A i \in DOMAIN result.value : \A k \in DOMAIN result.value[i].notes :
              /\ result.value[i].notes[k] \in Range(args.scale_notes)
              /\ InMidiRange(result.value[i].notes[k])
    /\ (call = "generate_bass_line" /\ Returned(result)) =>
          \A i \in DOMAIN result.value : InMidiRange(result.value[i].note)
    /\ FilePitchesInRange

-----------------------------------------------------------------------------
(* The chords the bass line plays *)

(* chord c (counted from 1) is the first chord of a full measure *)
OpensFullMeasure(c, n_chords, bpm) ==
    (c - 1) % bpm = 0 /\ (c - 1) \div bpm < n_chords \div bpm

(* the positions of the bass events that start within the span of a chord *)
StartingWithin(events, chord) ==
    {i \in DOMAIN events :
        /\ RLeq(chord.start_time, events[i].start_time)
        /\ RLess(events[i].start_time, RAdd(chord.start_time, chord.duration))}

(* C14: generate_bass_line plays the chords at the indices m x beatsPerMeasure,
   m < floor(len(chords) / beatsPerMeasure), and no other: a chord that is not
   the first of its measure, or that belongs to a trailing measure that is not
   full, gets no bass event; so when every chord lasts one beat all bass
   events start within the first beat of a measure and the durations of the
   bass part sum to the number of full measures, not to the total of the
   chords. *)
C14_FirstChordOfFullMeasures ==
    /\ (call = "generate_bass_line" /\ Returned(result)) =>
          LET chords == args.chord_progression
              bpm == BeatsOf(args.time_signature)
              full_measures == Len(chords) \div bpm
              stamped == \A c \in DOMAIN chords : "start_time" \in DOMAIN chords[c]
              steady == \A c \in DOMAIN chords : chords[c].duration = One
              durations == [i \in DOMAIN result.value |-> result.value[i].duration]
          IN  /\ Len(result.value) =
                    Len(Flatten([c \in DOMAIN chords |->
                           IF OpensFullMeasure(c, Len(chords), bpm)
                           THEN Repeat(chords[c].notes, Trunc(chords[c].duration))
                           ELSE <<>>]))
              /\ stamped =>
                    /\ \A c \in DOMAIN chords :
                          ~OpensFullMeasure(c, Len(chords), bpm) =>
                              StartingWithin(result.value, chords[c]) = {}
                    /\ \A i \in DOMAIN result.value : \E c \in DOMAIN chords :
                          /\ OpensFullMeasure(c, Len(chords), bpm)
                          /\ i \in StartingWithin(result.value, chords[c])
              /\ steady =>
                    /\ \A i \in DOMAIN result.value :
                          Trunc(result.value[i].start_time) % bpm = 0
                    /\ RSum(durations) = RInt(full_measures)
    /\ (SongGenerated /\ args.include_bass = "yes") =>
          LET song == result.value
          IN  /\ \A i \in DOMAIN song.bass : Trunc(song.bass[i].start_time) % 4 = 0
              /\ RSum([i \in DOMAIN song.bass |-> song.bass[i].duration]) =
                    RInt(Len(song.chords) \div 4)
              /\ RSum([i \in DOMAIN song.chords |-> song.chords[i].duration]) =
                    RInt(Len(song.chords))

(* two one-beat chords in 2/4: the first is arpeggiated, the second is silent *)
C14_Witness ==
    /\ call = "generate_bass_line" /\ Returned(result)
    /\ args.time_signature = <<"2", "/", "4">>
    /\ Len(args.chord_progression) = 2
    /\ \A c \in 1..2 : /\ "start_time" \in DOMAIN args.chord_progression[c]
                       /\ args.chord_progression[c].duration = One
    /\ Len(args.chord_progression[2].notes) = 3
    /\ Len(result.value) = 3
    /\ StartingWithin(result.value, args.chord_progression[1]) = 1..3
    /\ StartingWithin(result.value, args.chord_progression[2]) = {}

====
